---- MODULE Spec2Model ----
(***************************************************************************)
(* State-machine model of cdvae/pl_data/dataset.py: the two dataset        *)
(* classes CrystDataset (labelled, file backed, pickle cache) and          *)
(* TensorCrystDataset (label free, in memory), their constructors, len and *)
(* indexed access, and the attachment of the scalers done by main().       *)
(*                                                                         *)
(* Arrays are sequences of rows, tensors likewise; a python dict is a      *)
(* function from its keys; an optional value is a sequence of length 0/1.  *)
(***************************************************************************)
EXTENDS Integers, Sequences, FiniteSets, TLC

VARIABLES fs, ds, last, written, proc

vars == <<fs, ds, last, written, proc>>

(***************************************************************************)
(* Bounds of the model.                                                    *)
(***************************************************************************)
MaxAtoms == 2
MaxCrystals == 2

(***************************************************************************)
(* Inputs.  A raw crystal is described by its atom count, its bond count   *)
(* and the value of its property column (a lone atom has no bond).  A      *)
(* source (the csv behind `path`, or a crystal_array_list) is a list of    *)
(* raw crystals; the sources tried hold up to MaxCrystals crystals of      *)
(* consecutive atom counts, starting anywhere and wrapping at MaxAtoms.    *)
(***************************************************************************)
RawCrystal(n) == [natoms |-> n, nbonds |-> 3 * (n - 1), y |-> 10 * n]

Source(first, len) == [k \in 1..len |-> RawCrystal(((first + k - 2) % MaxAtoms) + 1)]

Sources == { Source(first, len) : first \in 1..MaxAtoms, len \in 0..MaxCrystals }

Methods == { "scale_length", "none" }

PropName == "y"

Indices == (0 - (MaxCrystals + 1)) .. (MaxCrystals + 1)

(***************************************************************************)
(* cdvae.common.data_utils collaborators (imported by dataset.py).         *)
(***************************************************************************)
\* graph_arrays of one crystal, in the positional order unpacked by __getitem__
GraphArrays(c) ==
    << [i \in 1..c.natoms |-> <<0, 0, 0>>],                  \* frac_coords   N x 3
       [i \in 1..c.natoms |-> i],                            \* atom_types    N
       <<4 * c.natoms, 4 * c.natoms, 4 * c.natoms>>,         \* lengths       3
       <<90, 90, 90>>,                                       \* angles        3
       [k \in 1..c.nbonds |-> <<0, k % c.natoms>>],          \* edge_indices  M x 2
       [k \in 1..c.nbonds |-> <<0, 0, k>>],                  \* to_jimages    M x 3
       c.natoms >>                                           \* num_atoms

\* preprocess(path, workers, niggli, primitive, graph_method, prop_list)
preprocess(path, prop) ==
    [k \in 1..Len(path) |-> (prop :> path[k].y) @@ [graph_arrays |-> GraphArrays(path[k])]]

\* preprocess_tensors(crystal_array_list, niggli, primitive, graph_method)
preprocess_tensors(crystal_array_list) ==
    [k \in 1..Len(crystal_array_list) |->
        [batch_idx |-> k - 1, graph_arrays |-> GraphArrays(crystal_array_list[k])]]

\* the scaled_lattice value of one record
ScaledLattice(data_dict, lattice_scale_method) ==
    LET lengths == data_dict.graph_arrays[3]
        angles == data_dict.graph_arrays[4]
        num_atoms == data_dict.graph_arrays[7]
        scaled == IF lattice_scale_method = "scale_length"
                  THEN [i \in 1..3 |-> lengths[i] \div num_atoms]
                  ELSE lengths
    IN scaled \o angles

\* add_scaled_lattice_prop(data_list, lattice_scale_method): sets the key on every dict
add_scaled_lattice_prop(data_list, lattice_scale_method) ==
    [k \in 1..Len(data_list) |->
        ("scaled_lattice" :> ScaledLattice(data_list[k], lattice_scale_method)) @@ data_list[k]]

(***************************************************************************)
(* The scalers.  An unset scaler is None.                                  *)
(***************************************************************************)
NoScaler == [set |-> FALSE, means |-> <<>>, stds |-> <<>>]

RECURSIVE SumSeq(_)
SumSeq(s) == IF s = <<>> THEN 0 ELSE Head(s) + SumSeq(Tail(s))

SeqMax(s) == CHOOSE v \in { s[i] : i \in 1..Len(s) } : \A i \in 1..Len(s) : s[i] <= v
SeqMin(s) == CHOOSE v \in { s[i] : i \in 1..Len(s) } : \A i \in 1..Len(s) : s[i] >= v

\* get_scaler_from_data_list(data_list, key): location and scale of every
\* component of data_list[k][key] (a scalar counts as one component)
get_scaler_from_data_list(data_list, key) ==
    LET width == IF key = "scaled_lattice" THEN 6 ELSE 1
        comp(k, i) == IF key = "scaled_lattice" THEN data_list[k][key][i] ELSE data_list[k][key]
        column(i) == [k \in 1..Len(data_list) |-> comp(k, i)]
    IN IF data_list = <<>>
       THEN [set |-> TRUE, means |-> [i \in 1..width |-> 0], stds |-> [i \in 1..width |-> 1]]
       ELSE [set |-> TRUE,
             means |-> [i \in 1..width |-> SumSeq(column(i)) \div Len(data_list)],
             stds |-> [i \in 1..width |-> 1 + SeqMax(column(i)) - SeqMin(column(i))]]

\* scaler.transform(x) for a scalar x
transform(scaler, x) == (x - scaler.means[1]) \div scaler.stds[1]

(***************************************************************************)
(* The persisted file and pickle.  A blob is a sequence of tokens: a       *)
(* header carrying the list length, one token per record, a STOP opcode.   *)
(***************************************************************************)
NoFile == [exists |-> FALSE, blob |-> <<>>]

\* pickle.dumps of a list of records
Dumps(data_list) ==
    << <<"PROTO", Len(data_list)>> >>
      \o [k \in 1..Len(data_list) |-> <<"REC", data_list[k]>>]
      \o << <<"STOP">> >>

WellFormed(blob) ==
    /\ Len(blob) >= 2
    /\ blob[1][1] = "PROTO"
    /\ blob[1][2] = Len(blob) - 2
    /\ blob[Len(blob)][1] = "STOP"
    /\ \A k \in 2..(Len(blob) - 1) : blob[k][1] = "REC"

\* pickle.loads: the list, or the exception raised
Loads(blob) ==
    IF blob = <<>> THEN [err |-> "EOFError", val |-> <<>>]
    ELSE IF ~WellFormed(blob) THEN [err |-> "UnpicklingError", val |-> <<>>]
    ELSE [err |-> "none", val |-> [k \in 1..(Len(blob) - 2) |-> blob[k + 1][2]]]

\* Path(save_path).exists()
Exists(file) == file.exists

\* variant of the open that keeps the old content (mode 'r+b' on an existing file)
OpenKeepsContent(file) == [exists |-> TRUE, blob |-> file.blob]

\* open(save_path, 'wb'): creates the file or truncates it to length zero
OpenWB(file) == [exists |-> TRUE, blob |-> <<>>]

\* write of one token at a file offset (a hole left by a truncation reads as NUL)
WriteAt(file, offset, token) ==
    LET n == IF Len(file.blob) > offset + 1 THEN Len(file.blob) ELSE offset + 1
    IN [exists |-> TRUE,
        blob |-> [k \in 1..n |-> IF k = offset + 1 THEN token
                                 ELSE IF k <= Len(file.blob) THEN file.blob[k]
                                 ELSE <<"NUL">>]]

RECURSIVE WriteAll(_, _, _)
WriteAll(file, offset, tokens) ==
    IF tokens = <<>> THEN file
    ELSE WriteAll(WriteAt(file, offset, Head(tokens)), offset + 1, Tail(tokens))

(***************************************************************************)
(* class CrystDataset                                                      *)
(***************************************************************************)
SavePath == "save_path"

\* variant of line 47 that consults only the file: not Path(self.save_path).exists()
ShouldProcessIgnoresForce(force_process, file) == ~Exists(file)

\* line 47: self.force_process or not Path(self.save_path).exists()
ShouldProcess(force_process, file) == force_process \/ ~Exists(file)

\* the calls made while evaluating line 47 (`or` short-circuits)
ConditionTrace(force_process) == IF force_process THEN <<>> ELSE <<"exists">>

CrystObject(lattice_scale_method, cached_data) ==
    [kind |-> "CrystDataset",
     save_path |-> SavePath,
     prop |-> PropName,
     lattice_scale_method |-> lattice_scale_method,
     cached_data |-> cached_data,
     lattice_scaler |-> NoScaler,
     scaler |-> NoScaler]

\* lines 48-57, then 62-64: preprocess, dump into save_path, augment
ComputePath(file, path, lattice_scale_method) ==
    LET cached_data == preprocess(path, PropName)
        dumped == WriteAll(OpenWB(file), 0, Dumps(cached_data))
    IN [err |-> "none",
        self |-> << CrystObject(lattice_scale_method,
                                add_scaled_lattice_prop(cached_data, lattice_scale_method)) >>,
        file |-> dumped,
        trace |-> <<"preprocess", "open_wb", "pickle.dump", "add_scaled_lattice_prop">>]

\* variant of the load path that takes the loaded list as it is (augmentation
\* done in the compute branch only)
LoadPathWithoutAugment(file, lattice_scale_method) ==
    LET loaded == Loads(file.blob)
    IN IF loaded.err # "none"
       THEN [err |-> loaded.err, self |-> <<>>, file |-> file,
             trace |-> <<"open_rb", "pickle.load">>]
       ELSE [err |-> "none",
             self |-> << CrystObject(lattice_scale_method, loaded.val) >>,
             file |-> file,
             trace |-> <<"open_rb", "pickle.load">>]

\* variant of the load path that augments with a fixed policy instead of the
\* configured one
LoadPathFixedPolicy(file, lattice_scale_method) ==
    LET loaded == Loads(file.blob)
    IN IF loaded.err # "none"
       THEN [err |-> loaded.err, self |-> <<>>, file |-> file,
             trace |-> <<"open_rb", "pickle.load">>]
       ELSE [err |-> "none",
             self |-> << CrystObject(lattice_scale_method,
                                     add_scaled_lattice_prop(loaded.val, "scale_length")) >>,
             file |-> file,
             trace |-> <<"open_rb", "pickle.load", "add_scaled_lattice_prop">>]

\* lines 59-60, then 62-64: load from save_path, augment; a failing
\* pickle.load leaves __init__ with its exception
LoadPath(file, lattice_scale_method) ==
    LET loaded == Loads(file.blob)
    IN IF loaded.err # "none"
       THEN [err |-> loaded.err,
             self |-> <<>>,
             file |-> file,
             trace |-> <<"open_rb", "pickle.load">>]
       ELSE [err |-> "none",
             self |-> << CrystObject(lattice_scale_method,
                                     add_scaled_lattice_prop(loaded.val, lattice_scale_method)) >>,
             file |-> file,
             trace |-> <<"open_rb", "pickle.load", "add_scaled_lattice_prop">>]

\* variant of __init__ that recomputes when the load fails (try/except around
\* pickle.load)
CrystDataset_initWithFallback(file, path, force_process, lattice_scale_method) ==
    LET first == IF ShouldProcess(force_process, file)
                 THEN ComputePath(file, path, lattice_scale_method)
                 ELSE LoadPath(file, lattice_scale_method)
        r == IF first.err # "none"
             THEN LET again == ComputePath(file, path, lattice_scale_method)
                  IN [again EXCEPT !.trace = first.trace \o again.trace]
             ELSE first
    IN [r EXCEPT !.trace = ConditionTrace(force_process) \o r.trace]

\* CrystDataset.__init__: the object built (or the exception raised), the
\* file afterwards and the collaborator calls made, in order
CrystDataset_init(file, path, force_process, lattice_scale_method) ==
    LET r == IF ShouldProcess(force_process, file)
             THEN ComputePath(file, path, lattice_scale_method)
             ELSE LoadPath(file, lattice_scale_method)
    IN [r EXCEPT !.trace = ConditionTrace(force_process) \o r.trace]

\* CrystDataset.__len__ / TensorCrystDataset.__len__
Dataset_len(self) == Len(self.cached_data)

\* variant of the indexing that rejects every negative index
ListIndexRejectsNegative(list, index) ==
    IF index >= 0 /\ index < Len(list) THEN [err |-> "none", val |-> << list[index + 1] >>]
    ELSE [err |-> "IndexError", val |-> <<>>]

\* python list indexing: self.cached_data[index]
ListIndex(list, index) ==
    IF index >= 0 /\ index < Len(list) THEN [err |-> "none", val |-> << list[index + 1] >>]
    ELSE IF index < 0 /\ index >= 0 - Len(list)
         THEN [err |-> "none", val |-> << list[Len(list) + index + 1] >>]
    ELSE [err |-> "IndexError", val |-> <<>>]

\* edge_indices.T of an M x 2 array: 2 x M
Transpose(m) == [j \in 1..2 |-> [k \in 1..Len(m) |-> m[k][j]]]

\* variant of Data(...) with num_bonds=edge_indices.shape[1]
GraphDataBondsFromColumns(graph_arrays) ==
    [frac_coords |-> graph_arrays[1],
     atom_types |-> graph_arrays[2],
     lengths |-> << graph_arrays[3] >>,
     angles |-> << graph_arrays[4] >>,
     edge_index |-> Transpose(graph_arrays[5]),
     to_jimages |-> graph_arrays[6],
     num_atoms |-> graph_arrays[7],
     num_bonds |-> 2,
     num_nodes |-> graph_arrays[7]]

\* the Data(...) fields common to both classes
GraphData(graph_arrays) ==
    LET frac_coords == graph_arrays[1]
        atom_types == graph_arrays[2]
        lengths == graph_arrays[3]
        angles == graph_arrays[4]
        edge_indices == graph_arrays[5]
        to_jimages == graph_arrays[6]
        num_atoms == graph_arrays[7]
    IN [frac_coords |-> frac_coords,
        atom_types |-> atom_types,
        lengths |-> << lengths >>,
        angles |-> << angles >>,
        edge_index |-> Transpose(edge_indices),
        to_jimages |-> to_jimages,
        num_atoms |-> num_atoms,
        num_bonds |-> Len(edge_indices),
        num_nodes |-> num_atoms]

\* variant of __getitem__ that stores the normalised property back into the
\* cached record (data_dict[self.prop] = prop)
CrystDataset_getitemInPlace(self, index) ==
    LET item == ListIndex(self.cached_data, index)
        pos == IF index >= 0 THEN index + 1 ELSE Len(self.cached_data) + index + 1
    IN IF item.err # "none"
       THEN [self |-> self, err |-> item.err, out |-> <<>>]
       ELSE IF ~self.scaler.set
       THEN [self |-> self, err |-> "AttributeError", out |-> <<>>]
       ELSE LET data_dict == item.val[1]
                prop == transform(self.scaler, data_dict[self.prop])
            IN [self |-> [self EXCEPT !.cached_data[pos][self.prop] = prop],
                err |-> "none",
                out |-> << ("y" :> << <<prop>> >>) @@ GraphData(data_dict.graph_arrays) >>]

\* CrystDataset.__getitem__: the object afterwards, the Data returned or the exception
CrystDataset_getitem(self, index) ==
    LET item == ListIndex(self.cached_data, index)
    IN IF item.err # "none"
       THEN [self |-> self, err |-> item.err, out |-> <<>>]
       ELSE IF ~self.scaler.set
       THEN [self |-> self, err |-> "AttributeError", out |-> <<>>]
       ELSE LET data_dict == item.val[1]
                prop == transform(self.scaler, data_dict[self.prop])
            IN [self |-> self,
                err |-> "none",
                out |-> << ("y" :> << <<prop>> >>) @@ GraphData(data_dict.graph_arrays) >>]

(***************************************************************************)
(* class TensorCrystDataset                                                *)
(***************************************************************************)
TensorObject(lattice_scale_method, cached_data) ==
    [kind |-> "TensorCrystDataset",
     lattice_scale_method |-> lattice_scale_method,
     cached_data |-> cached_data,
     lattice_scaler |-> NoScaler,
     scaler |-> NoScaler]

\* variant of TensorCrystDataset.__init__ that dumps its list as CrystDataset does
TensorCrystDataset_initPersisting(file, crystal_array_list, lattice_scale_method) ==
    LET cached_data == preprocess_tensors(crystal_array_list)
    IN [err |-> "none",
        self |-> << TensorObject(lattice_scale_method,
                                 add_scaled_lattice_prop(cached_data, lattice_scale_method)) >>,
        file |-> WriteAll(OpenWB(file), 0, Dumps(cached_data)),
        trace |-> <<"preprocess_tensors", "open_wb", "pickle.dump", "add_scaled_lattice_prop">>]

\* TensorCrystDataset.__init__
TensorCrystDataset_init(file, crystal_array_list, lattice_scale_method) ==
    LET cached_data == preprocess_tensors(crystal_array_list)
    IN [err |-> "none",
        self |-> << TensorObject(lattice_scale_method,
                                 add_scaled_lattice_prop(cached_data, lattice_scale_method)) >>,
        file |-> file,
        trace |-> <<"preprocess_tensors", "add_scaled_lattice_prop">>]

\* TensorCrystDataset.__getitem__
TensorCrystDataset_getitem(self, index) ==
    LET item == ListIndex(self.cached_data, index)
    IN IF item.err # "none"
       THEN [self |-> self, err |-> item.err, out |-> <<>>]
       ELSE [self |-> self,
             err |-> "none",
             out |-> << GraphData(item.val[1].graph_arrays) >>]

\* main(), lines 183-188: fit both scalers on cached_data and attach them
AttachedScalers(self) ==
    [self EXCEPT !.lattice_scaler = get_scaler_from_data_list(self.cached_data, "scaled_lattice"),
                 !.scaler = get_scaler_from_data_list(self.cached_data, self.prop)]

(***************************************************************************)
(* State.                                                                  *)
(*   fs       the file at save_path                                        *)
(*   ds       the dataset object the program holds (None before the first  *)
(*            successful construction)                                     *)
(*   last     the last call made: its arguments (crystal_array_list for    *)
(*            TensorCrystDataset, the flags for CrystDataset), the calls   *)
(*            it made to its collaborators, the exception it raised, the   *)
(*            value returned                                               *)
(*   written  the cached_data and lattice_scale_method of the construction *)
(*            that last wrote the file                                     *)
(*   proc     two constructions running concurrently (race specification)  *)
(***************************************************************************)
None == [kind |-> "None"]

NoCall ==
    [op |-> "none", path |-> <<>>, force_process |-> FALSE, lattice_scale_method |-> "none",
     index |-> 0, existed |-> FALSE, err |-> "none", trace |-> <<>>, out |-> <<>>]

Procs == {1, 2}

IdleProc(path, lattice_scale_method) ==
    [pc |-> "start", path |-> path, force_process |-> FALSE,
     lattice_scale_method |-> lattice_scale_method,
     data |-> <<>>, offset |-> 0, blob |-> <<>>, sawWriter |-> FALSE,
     err |-> "none", cached_data |-> <<>>]

\* files an earlier run can have left at save_path: none, a dump cut short,
\* an empty file, a file that is not a pickle (a complete dump is reached by
\* a construction)
InitFiles ==
    {NoFile, [exists |-> TRUE, blob |-> <<>>], [exists |-> TRUE, blob |-> << <<"GARBAGE">> >>]}
      \cup { [exists |-> TRUE, blob |-> SubSeq(Dumps(preprocess(src, PropName)), 1, Len(src) + 1)] :
                src \in Sources }

Count(trace, name) == Cardinality({ k \in 1..Len(trace) : trace[k] = name })

Init ==
    /\ fs \in InitFiles
    /\ ds = None
    /\ last = NoCall
    /\ written = <<>>
    /\ proc = [p \in Procs |-> IdleProc(<<>>, "none")]

\* dataset = CrystDataset(...)
NewCrystDataset ==
    \E path \in Sources, force_process \in BOOLEAN, lattice_scale_method \in Methods :
        LET r == CrystDataset_init(fs, path, force_process, lattice_scale_method)
        IN /\ fs' = r.file
           /\ ds' = IF r.err = "none" THEN r.self[1] ELSE ds
           /\ last' = [NoCall EXCEPT !.op = "CrystDataset.__init__",
                                     !.force_process = force_process,
                                     !.lattice_scale_method = lattice_scale_method,
                                     !.existed = Exists(fs),
                                     !.err = r.err,
                                     !.trace = r.trace]
           /\ written' = IF Count(r.trace, "pickle.dump") > 0
                         THEN << [cached_data |-> r.self[1].cached_data,
                                  lattice_scale_method |-> lattice_scale_method] >>
                         ELSE written
           /\ UNCHANGED proc

\* dataset = TensorCrystDataset(...)
NewTensorCrystDataset ==
    \E crystal_array_list \in Sources, lattice_scale_method \in Methods :
        LET r == TensorCrystDataset_init(fs, crystal_array_list, lattice_scale_method)
        IN /\ fs' = r.file
           /\ ds' = IF r.err = "none" THEN r.self[1] ELSE ds
           /\ last' = [NoCall EXCEPT !.op = "TensorCrystDataset.__init__",
                                     !.path = crystal_array_list,
                                     !.lattice_scale_method = lattice_scale_method,
                                     !.existed = Exists(fs),
                                     !.err = r.err,
                                     !.trace = r.trace]
           /\ UNCHANGED <<written, proc>>

\* dataset.lattice_scaler = ...; dataset.scaler = ...   (main)
AttachScalers ==
    /\ ds.kind = "CrystDataset"
    /\ ~ds.scaler.set
    /\ ds' = AttachedScalers(ds)
    /\ last' = [NoCall EXCEPT !.op = "attach"]
    /\ UNCHANGED <<fs, written, proc>>

\* len(dataset)
LenCall ==
    /\ ds.kind # "None"
    /\ last' = [NoCall EXCEPT !.op = "__len__", !.out = << Dataset_len(ds) >>]
    /\ UNCHANGED <<fs, ds, written, proc>>

\* dataset[index] on a CrystDataset
GetItemCryst ==
    /\ ds.kind = "CrystDataset"
    /\ \E index \in Indices :
          LET r == CrystDataset_getitem(ds, index)
          IN /\ ds' = r.self
             /\ last' = [NoCall EXCEPT !.op = "CrystDataset.__getitem__",
                                       !.index = index, !.err = r.err, !.out = r.out]
    /\ UNCHANGED <<fs, written, proc>>

\* dataset[index] on a TensorCrystDataset
GetItemTensor ==
    /\ ds.kind = "TensorCrystDataset"
    /\ \E index \in Indices :
          LET r == TensorCrystDataset_getitem(ds, index)
          IN /\ ds' = r.self
             /\ last' = [NoCall EXCEPT !.op = "TensorCrystDataset.__getitem__",
                                       !.index = index, !.err = r.err, !.out = r.out]
    /\ UNCHANGED <<fs, written, proc>>

Next ==
    \/ NewCrystDataset
    \/ NewTensorCrystDataset
    \/ AttachScalers
    \/ LenCall
    \/ GetItemCryst
    \/ GetItemTensor

Spec == Init /\ [][Next]_vars

(***************************************************************************)
(* Properties.                                                             *)
(***************************************************************************)
IsInit(call) == call.op \in {"CrystDataset.__init__", "TensorCrystDataset.__init__"}

IsGetItem(call) == call.op \in {"CrystDataset.__getitem__", "TensorCrystDataset.__getitem__"}

FileCalls == {"exists", "open_rb", "open_wb", "pickle.load", "pickle.dump"}

\* position in cached_data of the record python's indexing selects
Position(n, index) == IF index >= 0 THEN index + 1 ELSE n + index + 1

\* C1: a CrystDataset construction with force_process false and an existing
\* save_path never calls preprocess and, when it succeeds, its cached records
\* are the records deserialized from the file; with force_process true, or
\* with no file, preprocess is called exactly once.
CacheDecision ==
    last.op = "CrystDataset.__init__" =>
        /\ (~last.force_process /\ last.existed) =>
              /\ Count(last.trace, "preprocess") = 0
              /\ last.err = "none" =>
                    LET loaded == Loads(fs.blob).val
                    IN /\ Len(ds.cached_data) = Len(loaded)
                       /\ \A k \in 1..Len(loaded) : \A key \in DOMAIN loaded[k] :
                             ds.cached_data[k][key] = loaded[k][key]
        /\ (last.force_process \/ ~last.existed) => Count(last.trace, "preprocess") = 1

\* a construction that loaded the non-empty file an earlier construction wrote
CacheDecisionWitness ==
    /\ last.op = "CrystDataset.__init__"
    /\ ~last.force_process /\ last.existed /\ last.err = "none"
    /\ Len(ds.cached_data) > 0
    /\ written # <<>>

\* C2 (as claimed): indexed access on a CrystDataset whose scaler is still
\* unset raises the designated "scaler not configured" error (the ValueError
\* of the disabled guard), not an AttributeError.
UnsetScalerRaisesDesignatedError ==
    ( /\ last.op = "CrystDataset.__getitem__"
      /\ ~ds.scaler.set
      /\ last.index >= 0 /\ last.index < Dataset_len(ds) )
        => last.err = "ValueError"

\* C3 (as claimed): __getitem__ (scaler attached, for CrystDataset) raises
\* IndexError for every index < 0 and every index >= len, and returns a
\* sample only for 0 <= index < len.
NegativeIndexRaises ==
    (IsGetItem(last) /\ (ds.kind = "TensorCrystDataset" \/ ds.scaler.set)) =>
        /\ (last.index < 0 \/ last.index >= Dataset_len(ds)) => last.err = "IndexError"
        /\ last.out # <<>> => (last.index >= 0 /\ last.index < Dataset_len(ds))

\* C3 (amended): __getitem__ raises IndexError exactly for index < -len and
\* index >= len; for -len <= index < len (scaler attached, for CrystDataset)
\* it returns the sample of the record python's indexing selects, so a
\* negative index -k with k <= len returns the sample of record len - k.
IndexRange ==
    IsGetItem(last) =>
        LET n == Dataset_len(ds)
            inside == last.index >= 0 - n /\ last.index < n
        IN /\ ~inside => (last.err = "IndexError" /\ last.out = <<>>)
           /\ inside => last.err # "IndexError"
           /\ (inside /\ (ds.kind = "TensorCrystDataset" \/ ds.scaler.set)) =>
                 LET graph_arrays == ds.cached_data[Position(n, last.index)].graph_arrays
                 IN /\ last.err = "none"
                    /\ Len(last.out) = 1
                    /\ last.out[1].frac_coords = graph_arrays[1]
                    /\ last.out[1].atom_types = graph_arrays[2]
                    /\ last.out[1].to_jimages = graph_arrays[6]

\* a negative index returned a sample
IndexRangeWitness ==
    /\ IsGetItem(last)
    /\ last.index < 0
    /\ last.out # <<>>

\* C4: every successful construction of either class calls
\* add_scaled_lattice_prop exactly once, as its last collaborator call, after
\* the call that obtained the list, on every record, and returns with scaler
\* and lattice_scaler unset.
AugmentOnce ==
    (IsInit(last) /\ last.err = "none") =>
        /\ Count(last.trace, "add_scaled_lattice_prop") = 1
        /\ last.trace[Len(last.trace)] = "add_scaled_lattice_prop"
        /\ Count(last.trace, "preprocess") + Count(last.trace, "pickle.load")
              + Count(last.trace, "preprocess_tensors") = 1
        /\ \A k \in 1..Len(ds.cached_data) :
              /\ "scaled_lattice" \in DOMAIN ds.cached_data[k]
              /\ ds.cached_data[k]["scaled_lattice"]
                    = ScaledLattice(ds.cached_data[k], last.lattice_scale_method)
        /\ ds.scaler = NoScaler
        /\ ds.lattice_scaler = NoScaler

\* a construction that took the load path and got records
AugmentOnceWitness ==
    /\ last.op = "CrystDataset.__init__"
    /\ last.err = "none"
    /\ Count(last.trace, "pickle.load") = 1
    /\ Len(ds.cached_data) > 0

\* C5: a CrystDataset construction on the load path whose pickle.load fails
\* raises that error, calls preprocess zero times, leaves the file as it was
\* and produces no dataset.
LoadFailureIsFatal ==
    [][ ( /\ last'.op = "CrystDataset.__init__"
          /\ ~last'.force_process
          /\ Exists(fs)
          /\ Loads(fs.blob).err # "none" )
          => /\ last'.err = Loads(fs.blob).err
             /\ Count(last'.trace, "preprocess") = 0
             /\ Count(last'.trace, "open_wb") = 0
             /\ Count(last'.trace, "pickle.dump") = 0
             /\ fs' = fs
             /\ ds' = ds ]_vars

\* a construction failed in pickle.load
LoadFailureWitness ==
    /\ last.op = "CrystDataset.__init__"
    /\ last.err \in {"EOFError", "UnpicklingError"}
    /\ Count(last.trace, "pickle.load") = 1

\* C6: a TensorCrystDataset construction calls preprocess_tensors exactly
\* once, makes no file call and leaves the file as it was, whatever the file
\* is; afterwards len is the number of records preprocess_tensors returned
\* (2 for two input arrays).
TensorInitTouchesNoFile ==
    [][ last'.op = "TensorCrystDataset.__init__"
          => /\ last'.err = "none"
             /\ Count(last'.trace, "preprocess_tensors") = 1
             /\ \A k \in 1..Len(last'.trace) : last'.trace[k] \notin FileCalls
             /\ fs' = fs
             /\ ds'.kind = "TensorCrystDataset"
             /\ Dataset_len(ds') = Len(preprocess_tensors(last'.path))
             /\ Len(last'.path) = 2 => Dataset_len(ds') = 2 ]_vars

\* a TensorCrystDataset built from two arrays while a file exists at save_path
TensorInitWitness ==
    /\ last.op = "TensorCrystDataset.__init__"
    /\ Len(last.path) = 2
    /\ Dataset_len(ds) = 2
    /\ Exists(fs)

\* C7: every returned sample has num_atoms and num_nodes equal to the row
\* count of its frac_coords, and num_bonds equal to the row count of the
\* record's edge_indices, which is the column count of its 2 x M edge_index.
SampleCounts ==
    (IsGetItem(last) /\ last.out # <<>>) =>
        LET data == last.out[1]
            record == ds.cached_data[Position(Dataset_len(ds), last.index)]
        IN /\ data.num_atoms = Len(data.frac_coords)
           /\ data.num_nodes = Len(data.frac_coords)
           /\ data.num_bonds = Len(record.graph_arrays[5])
           /\ Len(data.edge_index) = 2
           /\ \A j \in 1..2 : Len(data.edge_index[j]) = data.num_bonds

\* a sample with bonds was returned
SampleCountsWitness ==
    /\ IsGetItem(last)
    /\ last.out # <<>>
    /\ last.out[1].num_bonds > 0
    /\ last.out[1].num_atoms > 1

\* C8: a CrystDataset construction that loads the file written by an earlier
\* construction, under the same lattice_scale_method, ends with cached_data
\* equal to the cached_data of that earlier construction, record for record
\* and in the same order, scaled_lattice included.
ReloadEqualsComputed ==
    ( /\ last.op = "CrystDataset.__init__"
      /\ last.err = "none"
      /\ Count(last.trace, "pickle.load") = 1
      /\ written # <<>>
      /\ written[1].lattice_scale_method = last.lattice_scale_method )
        => ds.cached_data = written[1].cached_data

\* a reload, under the policy "none", of a dump of two or more records
ReloadWitness ==
    /\ last.op = "CrystDataset.__init__"
    /\ last.err = "none"
    /\ Count(last.trace, "pickle.load") = 1
    /\ written # <<>>
    /\ written[1].lattice_scale_method = last.lattice_scale_method
    /\ last.lattice_scale_method = "none"
    /\ Len(ds.cached_data) >= 2

\* C9: __getitem__ leaves the dataset object (cached_data, scalers) and the
\* file unchanged, so len is constant, and a second access with the same
\* index gives the same outcome as the first.
GetItemReadOnly ==
    [][ IsGetItem(last')
          => /\ ds' = ds
             /\ fs' = fs
             /\ Dataset_len(ds') = Dataset_len(ds)
             /\ (last.op = last'.op /\ last.index = last'.index)
                   => (last'.err = last.err /\ last'.out = last.out) ]_vars

\* a CrystDataset with its scaler attached returned a sample
GetItemReadOnlyWitness ==
    /\ last.op = "CrystDataset.__getitem__"
    /\ ds.scaler.set
    /\ last.out # <<>>
    /\ last.out[1].y # << <<ds.cached_data[Position(Dataset_len(ds), last.index)][ds.prop]>> >>

(***************************************************************************)
(* Two CrystDataset constructions of the same configuration (path,         *)
(* save_path, lattice_scale_method) running concurrently, as two processes *)
(* of one job do.  __init__ is cut at its file-system calls: line 47       *)
(* (exists), open(..., 'wb'), the writes of pickle.dump, open(..., 'rb')   *)
(* with pickle.load, and line 62.  preprocess touches no shared state and  *)
(* is taken together with line 47.                                         *)
(***************************************************************************)
RaceInitFiles ==
    {NoFile, [exists |-> TRUE, blob |-> << <<"GARBAGE">> >>]}
      \cup { [exists |-> TRUE, blob |-> Dumps(preprocess(src, PropName))] : src \in Sources }

RaceInit ==
    /\ fs \in RaceInitFiles
    /\ ds = None
    /\ last = NoCall
    /\ written = <<>>
    /\ \E path \in Sources, lattice_scale_method \in Methods :
          proc = [p \in Procs |-> IdleProc(path, lattice_scale_method)]

\* line 47 (and lines 48-55 when the condition holds)
RaceBegin(p) ==
    /\ proc[p].pc = "start"
    /\ \E force_process \in BOOLEAN :
          proc' = [proc EXCEPT ![p] =
                     IF ShouldProcess(force_process, fs)
                     THEN [@ EXCEPT !.pc = "open_wb",
                                    !.force_process = force_process,
                                    !.data = preprocess(proc[p].path, PropName)]
                     ELSE [@ EXCEPT !.pc = "open_rb", !.force_process = force_process]]
    /\ UNCHANGED <<fs, ds, last, written>>

\* line 57: open(self.save_path, 'wb')
RaceOpenWB(p) ==
    /\ proc[p].pc = "open_wb"
    /\ fs' = OpenWB(fs)
    /\ proc' = [proc EXCEPT ![p].pc = "dump", ![p].offset = 0]
    /\ UNCHANGED <<ds, last, written>>

\* line 57: pickle.dump writes the next part of the blob at its file offset
RaceWrite(p) ==
    /\ proc[p].pc = "dump"
    /\ LET blob == Dumps(proc[p].data)
       IN /\ fs' = WriteAt(fs, proc[p].offset, blob[proc[p].offset + 1])
          /\ proc' = [proc EXCEPT ![p].offset = @ + 1,
                                  ![p].pc = IF proc[p].offset + 1 = Len(blob)
                                            THEN "augment" ELSE "dump"]
    /\ UNCHANGED <<ds, last, written>>

\* line 60: pickle.load(open(self.save_path, 'rb'))
RaceLoad(p) ==
    /\ proc[p].pc = "open_rb"
    /\ LET loaded == Loads(fs.blob)
       IN proc' = [proc EXCEPT ![p] =
                     [@ EXCEPT !.blob = fs.blob,
                               !.sawWriter = \E q \in Procs \ {p} : proc[q].pc = "dump",
                               !.err = loaded.err,
                               !.data = loaded.val,
                               !.pc = IF loaded.err = "none" THEN "augment" ELSE "failed"]]
    /\ UNCHANGED <<fs, ds, last, written>>

\* lines 62-64
RaceAugment(p) ==
    /\ proc[p].pc = "augment"
    /\ proc' = [proc EXCEPT ![p].cached_data =
                                add_scaled_lattice_prop(proc[p].data, proc[p].lattice_scale_method),
                            ![p].pc = "done"]
    /\ UNCHANGED <<fs, ds, last, written>>

RaceNext ==
    \E p \in Procs :
        \/ RaceBegin(p)
        \/ RaceOpenWB(p)
        \/ RaceWrite(p)
        \/ RaceLoad(p)
        \/ RaceAugment(p)

SpecRace == RaceInit /\ [][RaceNext]_vars

IsStrictPrefix(a, b) ==
    /\ Len(a) < Len(b)
    /\ \A k \in 1..Len(a) : a[k] = b[k]

\* C10: nothing coordinates two concurrent constructions on one save_path: a
\* construction that found the file and loads it while the other has opened
\* the file for writing and not finished its dump reads an empty or partial
\* blob (a strict prefix of the dump), and its pickle.load fails.
RacingLoadReadsPartialBlob ==
    \A p \in Procs :
        proc[p].sawWriter =>
            \E q \in Procs \ {p} :
                /\ proc[q].pc \in {"dump", "augment", "done"}
                /\ ~proc[p].force_process
                /\ IsStrictPrefix(proc[p].blob, Dumps(proc[q].data))
                /\ proc[p].pc = "failed"
                /\ proc[p].err \in {"EOFError", "UnpicklingError"}

\* the interleaving happened, with a partial (non-empty) blob read
RacingLoadWitness ==
    \E p \in Procs :
        /\ proc[p].sawWriter
        /\ proc[p].blob # <<>>
        /\ proc[p].pc = "failed"

====
